---- MODULE Spec2Model ----
(***************************************************************************)
(* Model of dacta.py: the host-side driver of the Lego 9751 / 70909        *)
(* interface box.  The driver owns an outgoing queue drained by taskWrite, *)
(* a keepalive producer (taskKeepAlive), a reader (taskRead) that hunts    *)
(* 19-byte checksum-delimited frames in the serial input, and a mutex      *)
(* guarded block of per-port sensor values, status and rotation counters.  *)
(***************************************************************************)
EXTENDS Integers, Sequences, FiniteSets, TLC

(***************************************************************************)
(* Bounds of the model.                                                    *)
(***************************************************************************)
\* puts the keepalive task and the caller may make while the link runs
MaxEnq == 3
\* reads that time out although the device still has bytes to send
MaxTmo == 1
\* frames the device sends in one input stream
MaxFrames == 2
\* calls of close(): the explicit one and the finalizer's
MaxClose == 2

(***************************************************************************)
(* Program constants.                                                      *)
(***************************************************************************)
NUM_SENSORS == 8
FRAME_LEN == 19
REFILL_LEN == 18
FILLER == 120
CMD_NOP == 2
CMD_PORTONL == 16
CMD_PORTONR == 24
CMD_PORTREV == 32
CMD_PORTONX == 40
CMD_PORTOFF == 48
CMD_PORTDRL == 64
CMD_PORTDRR == 72
CMD_KILLALL == 112
PARAM_POWER == 176

Ports == 0 .. (NUM_SENSORS - 1)
Byte == 0 .. 255

(***************************************************************************)
(* Python's integer operators on the operands the driver uses.             *)
(***************************************************************************)
Min(a, b) == IF a < b THEN a ELSE b

RECURSIVE Pow2(_)
Pow2(n) == IF n = 0 THEN 1 ELSE 2 * Pow2(n - 1)

RECURSIVE BitAndNat(_, _)
BitAndNat(a, b) ==
    IF a = 0 \/ b = 0 THEN 0
    ELSE (a % 2) * (b % 2) + 2 * BitAndNat(a \div 2, b \div 2)

RECURSIVE BitOr(_, _)
BitOr(a, b) ==
    IF a = 0 THEN b
    ELSE IF b = 0 THEN a
    ELSE (IF a % 2 = 1 \/ b % 2 = 1 THEN 1 ELSE 0) + 2 * BitOr(a \div 2, b \div 2)

\* a & m for a mask m in 0..65535: a negative a is an infinite run of one bits,
\* of which the mask keeps the low sixteen
BitAnd(a, m) == BitAndNat(IF a < 0 THEN a + 65536 * (((-a) \div 65536) + 1) ELSE a, m)

Shl(a, n) == a * Pow2(n)
Shr(a, n) == a \div Pow2(n)

RECURSIVE SumSeq(_)
SumSeq(s) == IF s = <<>> THEN 0 ELSE Head(s) + SumSeq(Tail(s))

\* str.encode(): the UTF-8 bytes of a one-character string of code point c < 0x800
Encode(c) ==
    IF c < 128 THEN <<c>>
    ELSE <<192 + (c \div 64), 128 + (c % 64)>>

\* a one-character string is kept as its code point, so chr() and ord() are the
\* representation itself; its bytes on the wire come from Encode
Chr(c) == c

\* a queue that hands out the newest item first
QueuePutFront(q, x) == <<x>> \o q

\* queue.Queue: put at the tail, get from the head
QueuePut(q, x) == Append(q, x)
QueueHead(q) == Head(q)
QueueRest(q) == Tail(q)

(***************************************************************************)
(* _decodeInput                                                            *)
(***************************************************************************)
\* a decode whose status mask keeps seven bits
DecodeInputWideStatus(b1, b2) ==
    LET value == BitOr(Shl(b1, 2), BitAnd(Shr(b2, 6), 3))
        state == BitAnd(b2, 127)
        change == BitAnd(state, 3)
    IN  <<value, state, IF BitAnd(state, 4) = 0 THEN change * (-1) ELSE change>>

\* a decode that negates the change when bit 2 of the status is set
DecodeInputSignFlipped(b1, b2) ==
    LET value == BitOr(Shl(b1, 2), BitAnd(Shr(b2, 6), 3))
        state == BitAnd(b2, 63)
        change == BitAnd(state, 3)
    IN  <<value, state, IF BitAnd(state, 4) # 0 THEN change * (-1) ELSE change>>

DecodeInput(b1, b2) ==
    LET value == BitOr(Shl(b1, 2), BitAnd(Shr(b2, 6), 3))
        state == BitAnd(b2, 63)
        change == BitAnd(state, 3)
    IN  <<value, state, IF BitAnd(state, 4) = 0 THEN change * (-1) ELSE change>>

\* index in the window of the first byte of each port's channel pair
ChannelOffset(p) ==
    CASE p = 0 -> 14 [] p = 1 -> 10 [] p = 2 -> 6 [] p = 3 -> 2
      [] p = 4 -> 16 [] p = 5 -> 12 [] p = 6 -> 8 [] p = 7 -> 4

\* a wiring in which port D accumulates rotation as well
RotationalFromD(p) == p >= 3

\* ports whose decode line is followed by a rotation update
Rotational(p) == p >= 4

\* b[i] of a Python bytes object, 0-indexed
At(b, i) == b[i + 1]

\* b[1:]
From1(b) == IF b = <<>> THEN <<>> ELSE Tail(b)

\* a window test that compares the checksum with 0 instead of 0xff
WindowTestZeroSum(b) ==
    IF Len(b) = 0 THEN "crash"
    ELSE IF At(b, 0) = 0 /\ Len(b) = FRAME_LEN /\ BitAnd(SumSeq(b), 255) = 0
         THEN "accept"
         ELSE "reject"

\* the test of one window: IndexError on an empty one, else accept or reject
WindowTest(b) ==
    IF Len(b) = 0 THEN "crash"
    ELSE IF At(b, 0) = 0 /\ Len(b) = FRAME_LEN /\ BitAnd(SumSeq(b), 255) = 255
         THEN "accept"
         ELSE "reject"

(***************************************************************************)
(* Input streams the device may send: valid frames built from channel      *)
(* pairs, and the bytes that may precede them.                             *)
(***************************************************************************)
\* the port whose channel pair covers index j (2..17) of a frame
PortAt(j) == CHOOSE p \in Ports : j - ChannelOffset(p) \in {0, 1}

\* a valid frame carrying the channel pairs ch[p + 1] = <<b1, b2>>: byte 0 is
\* zero, byte 1 is spare, byte 18 completes the checksum
MkFrame(ch) ==
    LET body == [i \in 1 .. (FRAME_LEN - 1) |->
                    IF i <= 2 THEN 0
                    ELSE ch[PortAt(i - 1) + 1][i - ChannelOffset(PortAt(i - 1))]]
    IN  Append(body, (255 - SumSeq(body)) % 256)

FrameA == MkFrame(<< <<255, 192>>, <<0, 7>>, <<1, 64>>, <<128, 5>>,
                     <<10, 5>>, <<20, 69>>, <<30, 3>>, <<200, 6>> >>)
FrameB == MkFrame(<< <<3, 0>>, <<4, 63>>, <<5, 128>>, <<6, 255>>,
                     <<11, 5>>, <<0, 1>>, <<0, 4>>, <<7, 7>> >>)
Frames == {FrameA, FrameB}

\* a frame with one byte corrupted: the checksum no longer holds
Corrupt(f, i) == [f EXCEPT ![i] = (@ + 1) % 256]

\* two bytes that, put before frame f, make the window starting at them pass
\* the window test
Straddle(f) == <<0, (255 - SumSeq(SubSeq(f, 1, FRAME_LEN - 2))) % 256>>

RECURSIVE Concat(_)
Concat(ss) == IF ss = <<>> THEN <<>> ELSE Head(ss) \o Concat(Tail(ss))

FrameSeqs(n) == UNION {[1 .. k -> Frames] : k \in 0 .. n}

\* the bytes before the first frame of a stream
Garbage(fs) ==
    {<<>>, <<7>>, <<255, 0, 9>>, Corrupt(FrameA, 5)}
        \cup (IF fs = <<>> THEN {} ELSE {Straddle(fs[1])})

VARIABLES
    ser,            \* _ser: "open", or "none" when the port could not be opened
    serClosed,      \* _ser.close() was called
    running,        \* _running
    outQueue,       \* _outQueue: code points of the one-character strings
    wire,           \* bytes written to the Transport
    sink,           \* items printed when there is no Transport
    kaPc,           \* taskKeepAlive: "check", "sleep", "done"
    wrPc,           \* taskWrite: "check", "get", "write", "done"
    wrItem,         \* taskWrite's item: the encoded bytes
    wrRaw,          \* the queue item wrItem was encoded from
    enqLog,         \* every item put on the queue, in order
    wrLog,          \* every item the Writer wrote, in order
    enqLeft,        \* puts left to the keepalive task and the caller
    rdPc,           \* taskRead: "start", "loop", "acquire", "decode", "release",
                    \* "refill", "topup", "shift", "done", "crashed"
    rdStep,         \* the port whose decode line runs next
    buff,           \* taskRead's window
    stream,         \* the bytes the device sends
    pos,            \* how many of them were read
    nTmo,           \* reads that timed out with bytes still to come
    tmoMax,         \* how many such reads the run may have
    lastFrame,      \* the window of the last accepted frame
    rotExp,         \* per port, the deltas of the frames accepted since its clear
    sensorValues,   \* _sensorValues
    sensorStatus,   \* _sensorStatus
    rotations,      \* _rotations
    sensorLock,     \* _sensorLock: "free" or its holder
    callPc,         \* the calling thread: "idle" or its place in a call
    callArg,        \* the argument the call in progress still needs
    snap,           \* the tuple the last getSensors() returned
    pre,            \* the sensor state when clearRotation took the lock
    clIdx,          \* close(): index in _threadList of the thread waited for
    nClose,         \* calls of close() started
    nRet,           \* calls of close() returned
    lastCall,       \* the last sendPortCmd or setPower call and its arguments
    decB1, decB2,   \* arguments of a direct call of _decodeInput
    decOut,         \* its result
    confirmation,   \* __init__'s window on the device's answer
    kaAfter,        \* puts of the keepalive task since the flag was cleared
    wrAfter,        \* items the Writer wrote since the flag was cleared
    nAcc            \* windows the Reader accepted

flagVars == <<ser, serClosed, running>>
outVars == <<outQueue, wire, sink, kaPc, wrPc, wrItem, wrRaw, enqLog, wrLog, enqLeft>>
rdVars == <<rdPc, rdStep, buff, stream, pos, nTmo, tmoMax, lastFrame, rotExp>>
sensVars == <<sensorValues, sensorStatus, rotations, sensorLock>>
callVars == <<callPc, callArg, snap, pre, clIdx, nClose, nRet, lastCall>>
decVars == <<decB1, decB2, decOut>>
auxVars == <<confirmation, kaAfter, wrAfter, nAcc>>
vars == <<flagVars, outVars, rdVars, sensVars, callVars, decVars, auxVars>>

Zeros == [p \in Ports |-> 0]

\* the state __init__ leaves: the handshake done, the flag set, the threads started
InitDriver ==
    /\ serClosed = FALSE
    /\ running = TRUE
    /\ outQueue = <<>> /\ wire = <<>> /\ sink = <<>>
    /\ kaPc = "check" /\ wrPc = "check" /\ wrItem = <<>> /\ wrRaw = 0
    /\ enqLog = <<>> /\ wrLog = <<>>
    /\ rdPc = "start" /\ rdStep = 0 /\ buff = <<>> /\ pos = 0 /\ nTmo = 0
    /\ lastFrame = <<>> /\ rotExp = Zeros
    /\ sensorValues = Zeros /\ sensorStatus = Zeros /\ rotations = Zeros
    /\ sensorLock = "free"
    /\ callPc = "idle" /\ callArg = 0
    /\ snap = <<Zeros, Zeros, Zeros>> /\ pre = <<>>
    /\ clIdx = 0 /\ nClose = 0 /\ nRet = 0 /\ lastCall = <<>>
    /\ confirmation = <<>>
    /\ kaAfter = 0 /\ wrAfter = 0 /\ nAcc = 0

(***************************************************************************)
(* taskKeepAlive                                                           *)
(***************************************************************************)
\* while self._running.is_set():
KeepAliveCheck ==
    /\ kaPc = "check"
    /\ kaPc' = IF running THEN "sleep" ELSE "done"
    /\ UNCHANGED <<flagVars, outQueue, wire, sink, wrPc, wrItem, wrRaw, enqLog, wrLog,
                   enqLeft, rdVars, sensVars, callVars, decVars, auxVars>>

\* time.sleep(1.9); self._outQueue.put(self.CMD_NOP).  While the link runs the
\* puts are counted against enqLeft; the one put after the flag is cleared is not.
KeepAlivePut ==
    /\ kaPc = "sleep"
    /\ enqLeft > 0 \/ ~running
    /\ outQueue' = QueuePut(outQueue, CMD_NOP)
    /\ enqLog' = Append(enqLog, CMD_NOP)
    /\ enqLeft' = IF running THEN enqLeft - 1 ELSE enqLeft
    /\ kaPc' = "check"
    /\ UNCHANGED <<flagVars, wire, sink, wrPc, wrItem, wrRaw, wrLog,
                   rdVars, sensVars, callVars, decVars, confirmation, wrAfter, nAcc>>
    /\ kaAfter' = IF running THEN kaAfter ELSE kaAfter + 1

(***************************************************************************)
(* taskWrite                                                               *)
(***************************************************************************)
\* a Writer whose loop does not test the running flag
WriteCheckAlways ==
    /\ wrPc = "check"
    /\ wrPc' = "get"
    /\ UNCHANGED <<flagVars, outQueue, wire, sink, kaPc, wrItem, wrRaw, enqLog, wrLog,
                   enqLeft, rdVars, sensVars, callVars, decVars, auxVars>>

\* while self._running.is_set():
WriteCheck ==
    /\ wrPc = "check"
    /\ wrPc' = IF running THEN "get" ELSE "done"
    /\ UNCHANGED <<flagVars, outQueue, wire, sink, kaPc, wrItem, wrRaw, enqLog, wrLog,
                   enqLeft, rdVars, sensVars, callVars, decVars, auxVars>>

\* A Writer whose pop does not block: on an empty queue the pop fails and
\* the task ends.
WriteGetNoWait ==
    /\ wrPc = "get"
    /\ IF outQueue = <<>>
       THEN /\ wrPc' = "done"
            /\ UNCHANGED <<wrItem, wrRaw, outQueue>>
       ELSE /\ wrItem' = Encode(QueueHead(outQueue))
            /\ wrRaw' = QueueHead(outQueue)
            /\ outQueue' = QueueRest(outQueue)
            /\ wrPc' = "write"
    /\ UNCHANGED <<flagVars, wire, sink, kaPc, enqLog, wrLog, enqLeft,
                   rdVars, sensVars, callVars, decVars, auxVars>>

\* item = self._outQueue.get(block=True).encode(): blocks while the queue is empty
WriteGet ==
    /\ wrPc = "get"
    /\ outQueue # <<>>
    /\ wrItem' = Encode(QueueHead(outQueue))
    /\ wrRaw' = QueueHead(outQueue)
    /\ outQueue' = QueueRest(outQueue)
    /\ wrPc' = "write"
    /\ UNCHANGED <<flagVars, wire, sink, kaPc, enqLog, wrLog, enqLeft,
                   rdVars, sensVars, callVars, decVars, auxVars>>

\* print(repr(item)) without a Transport, else self._ser.write(item)
WriteItem ==
    /\ wrPc = "write"
    /\ IF ser = "none"
       THEN sink' = Append(sink, wrItem) /\ wire' = wire
       ELSE wire' = wire \o wrItem /\ sink' = sink
    /\ wrLog' = Append(wrLog, wrRaw)
    /\ wrPc' = "check"
    /\ UNCHANGED <<flagVars, outQueue, kaPc, wrItem, wrRaw, enqLog, enqLeft,
                   rdVars, sensVars, callVars, decVars, confirmation, kaAfter, nAcc>>
    /\ wrAfter' = IF running THEN wrAfter ELSE wrAfter + 1

(***************************************************************************)
(* sendPortCmd, setPower                                                   *)
(***************************************************************************)
\* port = port & 7; chr(ord(cmd) | port)
PortCmdItem(cmd, port) == Chr(BitOr(cmd, BitAnd(port, 7)))

\* a sendPortCmd that does not mask the port
sendPortCmdNoMask(cmd, port) ==
    /\ callPc = "idle"
    /\ enqLeft > 0
    /\ outQueue' = QueuePut(outQueue, Chr(BitOr(cmd, IF port < 0 THEN 0 - port ELSE port)))
    /\ enqLog' = Append(enqLog, Chr(BitOr(cmd, IF port < 0 THEN 0 - port ELSE port)))
    /\ enqLeft' = enqLeft - 1
    /\ lastCall' = <<"sendPortCmd", cmd, port>>
    /\ UNCHANGED <<flagVars, wire, sink, kaPc, wrPc, wrItem, wrRaw, wrLog,
                   rdVars, sensVars, callPc, callArg, snap, pre, clIdx, nClose, nRet,
                   decVars, auxVars>>

sendPortCmd(cmd, port) ==
    /\ callPc = "idle"
    /\ enqLeft > 0
    /\ outQueue' = QueuePut(outQueue, PortCmdItem(cmd, port))
    /\ enqLog' = Append(enqLog, PortCmdItem(cmd, port))
    /\ enqLeft' = enqLeft - 1
    /\ lastCall' = <<"sendPortCmd", cmd, port>>
    /\ UNCHANGED <<flagVars, wire, sink, kaPc, wrPc, wrItem, wrRaw, wrLog,
                   rdVars, sensVars, callPc, callArg, snap, pre, clIdx, nClose, nRet,
                   decVars, auxVars>>

\* self.sendPortCmd(self._PARAM_POWER, power)
setPowerCmd(port, power) ==
    /\ callPc = "idle"
    /\ enqLeft > 1
    /\ outQueue' = QueuePut(outQueue, PortCmdItem(PARAM_POWER, power))
    /\ enqLog' = Append(enqLog, PortCmdItem(PARAM_POWER, power))
    /\ enqLeft' = enqLeft - 1
    /\ callPc' = "setPower"
    /\ callArg' = port
    /\ lastCall' = <<"setPower", port, power>>
    /\ UNCHANGED <<flagVars, wire, sink, kaPc, wrPc, wrItem, wrRaw, wrLog,
                   rdVars, sensVars, snap, pre, clIdx, nClose, nRet, decVars, auxVars>>

\* setPower putting the port index in place of the one-hot mask.
setPowerMaskIndex ==
    /\ callPc = "setPower"
    /\ outQueue' = QueuePut(outQueue, Chr(BitAnd(callArg, 7)))
    /\ enqLog' = Append(enqLog, Chr(BitAnd(callArg, 7)))
    /\ enqLeft' = enqLeft - 1
    /\ callPc' = "idle"
    /\ callArg' = 0
    /\ UNCHANGED <<flagVars, wire, sink, kaPc, wrPc, wrItem, wrRaw, wrLog,
                   rdVars, sensVars, snap, pre, clIdx, nClose, nRet, lastCall, decVars, auxVars>>

\* port = port & 7; self._outQueue.put(chr(1 << port))
setPowerMask ==
    /\ callPc = "setPower"
    /\ outQueue' = QueuePut(outQueue, Chr(Shl(1, BitAnd(callArg, 7))))
    /\ enqLog' = Append(enqLog, Chr(Shl(1, BitAnd(callArg, 7))))
    /\ enqLeft' = enqLeft - 1
    /\ callPc' = "idle"
    /\ callArg' = 0
    /\ UNCHANGED <<flagVars, wire, sink, kaPc, wrPc, wrItem, wrRaw, wrLog,
                   rdVars, sensVars, snap, pre, clIdx, nClose, nRet, lastCall, decVars, auxVars>>

(***************************************************************************)
(* close                                                                   *)
(***************************************************************************)
\* a join that waits for the first thread of the list only
ThreadAliveFirstOnly(i) == i = 0 /\ kaPc # "done"

\* thread.is_alive() of _threadList[i]: keepalive, writer, reader
ThreadAlive(i) ==
    CASE i = 0 -> kaPc # "done"
      [] i = 1 -> wrPc # "done"
      [] i = 2 -> rdPc \notin {"done", "crashed"}

\* self._outQueue.put(self.CMD_KILLALL)
closePut ==
    /\ callPc = "idle"
    /\ nClose < MaxClose
    /\ nClose' = nClose + 1
    /\ outQueue' = QueuePut(outQueue, CMD_KILLALL)
    /\ enqLog' = Append(enqLog, CMD_KILLALL)
    /\ callPc' = "close_sleep"
    /\ UNCHANGED <<flagVars, wire, sink, kaPc, wrPc, wrItem, wrRaw, wrLog, enqLeft,
                   rdVars, sensVars, callArg, snap, pre, clIdx, nRet, lastCall, decVars, auxVars>>

\* time.sleep(0.5); self._running.clear()
closeClear ==
    /\ callPc = "close_sleep"
    /\ running' = FALSE
    /\ callPc' = "close_join"
    /\ clIdx' = 0
    /\ UNCHANGED <<ser, serClosed, outVars, rdVars, sensVars, callArg, snap, pre,
                   nClose, nRet, lastCall, decVars, auxVars>>

\* for thread in self._threadList: while thread.is_alive(): time.sleep(0.1)
closeJoin ==
    /\ callPc = "close_join"
    /\ ~ThreadAlive(clIdx)
    /\ clIdx' = clIdx + 1
    /\ callPc' = IF clIdx + 1 = 3 THEN "close_ser" ELSE "close_join"
    /\ UNCHANGED <<flagVars, outVars, rdVars, sensVars, callArg, snap, pre,
                   nClose, nRet, lastCall, decVars, auxVars>>

\* if self._ser != None: self._ser.close()
closeSer ==
    /\ callPc = "close_ser"
    /\ serClosed' = (ser # "none")
    /\ callPc' = "idle"
    /\ nRet' = nRet + 1
    /\ UNCHANGED <<ser, running, outVars, rdVars, sensVars, callArg, snap, pre,
                   clIdx, nClose, lastCall, decVars, auxVars>>

(***************************************************************************)
(* taskRead                                                                *)
(***************************************************************************)
\* the lengths self._ser.read(n) may return: n bytes when the device sends them
\* in time, all that is left when the device has stopped, and fewer when the
\* 2 s timeout ends the read early
ReadLens(n) ==
    LET full == Min(n, Len(stream) - pos)
    IN  {full} \cup (IF nTmo < tmoMax THEN 0 .. (full - 1) ELSE {})

\* the bytes and the bookkeeping of one read of n bytes that returned k
ReadBytes(k) == SubSeq(stream, pos + 1, pos + k)

ReadDone(n, k) ==
    /\ pos' = pos + k
    /\ nTmo' = IF k < Min(n, Len(stream) - pos) THEN nTmo + 1 ELSE nTmo

\* if self._ser == None: return; buff = self._ser.read(19)
ReadStart ==
    /\ rdPc = "start"
    /\ IF ser = "none"
       THEN rdPc' = "done" /\ UNCHANGED <<buff, pos, nTmo>>
       ELSE \E k \in ReadLens(FRAME_LEN) :
                /\ buff' = ReadBytes(k)
                /\ ReadDone(FRAME_LEN, k)
                /\ rdPc' = "loop"
    /\ UNCHANGED <<flagVars, outVars, rdStep, stream, tmoMax, lastFrame, rotExp,
                   sensVars, callVars, decVars, auxVars>>

\* while self._running.is_set(): if buff[0] == 0 and len(buff) == 19: ... checksum
ReadLoop ==
    /\ rdPc = "loop"
    /\ rdPc' = IF ~running THEN "done"
               ELSE CASE WindowTest(buff) = "crash" -> "crashed"
                      [] WindowTest(buff) = "accept" -> "acquire"
                      [] OTHER -> "shift"
    /\ UNCHANGED <<flagVars, outVars, rdStep, buff, stream, pos, nTmo, tmoMax,
                   lastFrame, rotExp, sensVars, callVars, decVars, auxVars>>

\* the deltas _decodeInput gives for the rotational ports of window b
FrameDeltas(b) ==
    [p \in Ports |-> IF Rotational(p)
                     THEN DecodeInput(At(b, ChannelOffset(p)), At(b, ChannelOffset(p) + 1))[3]
                     ELSE 0]

\* self._sensorLock.acquire()
ReadAcquire ==
    /\ rdPc = "acquire"
    /\ sensorLock = "free"
    /\ sensorLock' = "reader"
    /\ rdPc' = "decode"
    /\ rdStep' = 0
    /\ lastFrame' = buff
    /\ rotExp' = [p \in Ports |-> rotExp[p] + FrameDeltas(buff)[p]]
    /\ UNCHANGED <<flagVars, outVars, buff, stream, pos, nTmo, tmoMax,
                   sensorValues, sensorStatus, rotations, callVars, decVars, confirmation, kaAfter, wrAfter>>
    /\ nAcc' = nAcc + 1

\* one decode line of port p: value and status are stored, and for the ports
\* E to H the line that follows adds the change to the rotation counter
DecodeLine(p) ==
    LET d == DecodeInput(At(buff, ChannelOffset(p)), At(buff, ChannelOffset(p) + 1))
    IN  /\ sensorValues' = [sensorValues EXCEPT ![p] = d[1]]
        /\ sensorStatus' = [sensorStatus EXCEPT ![p] = d[2]]
        /\ rotations' = IF Rotational(p)
                        THEN [rotations EXCEPT ![p] = @ + d[3]]
                        ELSE rotations

ReadDecode ==
    /\ rdPc = "decode"
    /\ DecodeLine(rdStep)
    /\ rdStep' = IF rdStep + 1 = NUM_SENSORS THEN 0 ELSE rdStep + 1
    /\ rdPc' = IF rdStep + 1 = NUM_SENSORS THEN "release" ELSE "decode"
    /\ UNCHANGED <<flagVars, outVars, buff, stream, pos, nTmo, tmoMax, lastFrame,
                   rotExp, sensorLock, callVars, decVars, auxVars>>

\* self._sensorLock.release()
ReadRelease ==
    /\ rdPc = "release"
    /\ sensorLock' = "free"
    /\ rdPc' = "refill"
    /\ UNCHANGED <<flagVars, outVars, rdStep, buff, stream, pos, nTmo, tmoMax,
                   lastFrame, rotExp, sensorValues, sensorStatus, rotations,
                   callVars, decVars, auxVars>>

\* a refill that reads a whole frame's length after the filler byte
ReadRefillFull ==
    /\ rdPc = "refill"
    /\ \E k \in ReadLens(FRAME_LEN) :
           /\ buff' = <<FILLER>> \o ReadBytes(k)
           /\ ReadDone(FRAME_LEN, k)
    /\ rdPc' = "topup"
    /\ UNCHANGED <<flagVars, outVars, rdStep, stream, tmoMax, lastFrame, rotExp,
                   sensVars, callVars, decVars, auxVars>>

\* buff = b'x' + self._ser.read(18)
ReadRefill ==
    /\ rdPc = "refill"
    /\ \E k \in ReadLens(REFILL_LEN) :
           /\ buff' = <<FILLER>> \o ReadBytes(k)
           /\ ReadDone(REFILL_LEN, k)
    /\ rdPc' = "topup"
    /\ UNCHANGED <<flagVars, outVars, rdStep, stream, tmoMax, lastFrame, rotExp,
                   sensVars, callVars, decVars, auxVars>>

\* while len(buff) < 19 and self._running.is_set(): buff = buff + self._ser.read(1)
ReadTopup ==
    /\ rdPc = "topup"
    /\ IF Len(buff) < FRAME_LEN /\ running
       THEN \E k \in ReadLens(1) :
                /\ buff' = buff \o ReadBytes(k)
                /\ ReadDone(1, k)
                /\ rdPc' = "topup"
       ELSE rdPc' = "shift" /\ UNCHANGED <<buff, pos, nTmo>>
    /\ UNCHANGED <<flagVars, outVars, rdStep, stream, tmoMax, lastFrame, rotExp,
                   sensVars, callVars, decVars, auxVars>>

\* buff = buff[1:] + self._ser.read(1)
ReadShift ==
    /\ rdPc = "shift"
    /\ \E k \in ReadLens(1) :
           /\ buff' = From1(buff) \o ReadBytes(k)
           /\ ReadDone(1, k)
    /\ rdPc' = "loop"
    /\ UNCHANGED <<flagVars, outVars, rdStep, stream, tmoMax, lastFrame, rotExp,
                   sensVars, callVars, decVars, auxVars>>

(***************************************************************************)
(* getSensors, clearRotation                                               *)
(***************************************************************************)
\* a getSensors that copies without taking the lock
getSensorsNoLock ==
    /\ callPc = "idle"
    /\ callPc' = "gs_valu"
    /\ UNCHANGED <<flagVars, outVars, rdVars, sensVars,
                   callArg, snap, pre, clIdx, nClose, nRet, lastCall, decVars, auxVars>>

\* self._sensorLock.acquire()
getSensorsAcquire ==
    /\ callPc = "idle"
    /\ sensorLock = "free"
    /\ sensorLock' = "caller"
    /\ callPc' = "gs_valu"
    /\ UNCHANGED <<flagVars, outVars, rdVars, sensorValues, sensorStatus, rotations,
                   callArg, snap, pre, clIdx, nClose, nRet, lastCall, decVars, auxVars>>

\* valu = list(self._sensorValues); stat = list(self._sensorStatus);
\* rot = list(self._rotations), one list a step
getSensorsCopy ==
    /\ callPc \in {"gs_valu", "gs_stat", "gs_rot"}
    /\ snap' = CASE callPc = "gs_valu" -> <<sensorValues, snap[2], snap[3]>>
                 [] callPc = "gs_stat" -> <<snap[1], sensorStatus, snap[3]>>
                 [] callPc = "gs_rot" -> <<snap[1], snap[2], rotations>>
    /\ callPc' = CASE callPc = "gs_valu" -> "gs_stat"
                   [] callPc = "gs_stat" -> "gs_rot"
                   [] callPc = "gs_rot" -> "gs_release"
    /\ UNCHANGED <<flagVars, outVars, rdVars, sensVars, callArg, pre, clIdx,
                   nClose, nRet, lastCall, decVars, auxVars>>

\* self._sensorLock.release(); return (valu, stat, rot)
getSensorsRelease ==
    /\ callPc = "gs_release"
    /\ sensorLock' = "free"
    /\ callPc' = "idle"
    /\ UNCHANGED <<flagVars, outVars, rdVars, sensorValues, sensorStatus, rotations,
                   callArg, snap, pre, clIdx, nClose, nRet, lastCall, decVars, auxVars>>

\* self._sensorLock.acquire()
clearRotationAcquire(port) ==
    /\ callPc = "idle"
    /\ sensorLock = "free"
    /\ sensorLock' = "caller"
    /\ callPc' = "cr_set"
    /\ callArg' = port
    /\ pre' = <<sensorValues, sensorStatus, rotations>>
    /\ UNCHANGED <<flagVars, outVars, rdVars, sensorValues, sensorStatus, rotations,
                   snap, clIdx, nClose, nRet, lastCall, decVars, auxVars>>

\* a clearRotation that zeroes every counter
clearRotationSetAll ==
    /\ callPc = "cr_set"
    /\ rotations' = Zeros
    /\ rotExp' = Zeros
    /\ callPc' = "cr_release"
    /\ UNCHANGED <<flagVars, outVars, rdPc, rdStep, buff, stream, pos, nTmo, tmoMax,
                   lastFrame, sensorValues, sensorStatus, sensorLock,
                   callArg, snap, pre, clIdx, nClose, nRet, lastCall, decVars, auxVars>>

\* self._rotations[port & 7] = 0
clearRotationSet ==
    /\ callPc = "cr_set"
    /\ rotations' = [rotations EXCEPT ![BitAnd(callArg, 7)] = 0]
    /\ rotExp' = [rotExp EXCEPT ![BitAnd(callArg, 7)] = 0]
    /\ callPc' = "cr_release"
    /\ UNCHANGED <<flagVars, outVars, rdPc, rdStep, buff, stream, pos, nTmo, tmoMax,
                   lastFrame, sensorValues, sensorStatus, sensorLock,
                   callArg, snap, pre, clIdx, nClose, nRet, lastCall, decVars, auxVars>>

\* self._sensorLock.release()
clearRotationRelease ==
    /\ callPc = "cr_release"
    /\ sensorLock' = "free"
    /\ callPc' = "idle"
    /\ callArg' = 0
    /\ pre' = <<>>
    /\ UNCHANGED <<flagVars, outVars, rdVars, sensorValues, sensorStatus, rotations,
                   snap, clIdx, nClose, nRet, lastCall, decVars, auxVars>>

(***************************************************************************)
(* A direct call of _decodeInput(decB1, decB2).                            *)
(***************************************************************************)
decodeCall ==
    /\ decOut = <<>>
    /\ decOut' = DecodeInput(decB1, decB2)
    /\ UNCHANGED <<flagVars, outVars, rdVars, sensVars, callVars, decB1, decB2, auxVars>>

(***************************************************************************)
(* Specifications.                                                         *)
(***************************************************************************)
NoDecode == decB1 = 0 /\ decB2 = 0 /\ decOut = <<>>

\* arguments the caller passes
Cmds == {CMD_NOP, CMD_PORTONL, CMD_PORTONR, CMD_PORTREV, CMD_PORTONX, CMD_PORTOFF,
         CMD_PORTDRL, CMD_PORTDRR, CMD_KILLALL, PARAM_POWER}
PortArgs == (0 - 9) .. 16
LinkCmds == {CMD_PORTREV}
LinkPorts == {1, 15}
LinkPowerPorts == {7}
LinkPowers == {3}
ClearPorts == {1, 4, 7, 13}

\* The link: the producers, the Writer, the Reader and close().
Init ==
    /\ InitDriver /\ NoDecode
    /\ ser \in {"open", "none"}
    /\ stream \in (IF ser = "open" THEN {<<>>, FrameA} ELSE {<<>>})
    /\ tmoMax = 0
    /\ enqLeft = MaxEnq

Next ==
    \/ KeepAliveCheck \/ KeepAlivePut
    \/ WriteCheck \/ WriteGet \/ WriteItem
    \/ \E cmd \in LinkCmds, port \in LinkPorts : sendPortCmd(cmd, port)
    \/ \E port \in LinkPowerPorts, power \in LinkPowers : setPowerCmd(port, power)
    \/ setPowerMask
    \/ closePut \/ closeClear \/ closeJoin \/ closeSer
    \/ ReadStart \/ ReadLoop \/ ReadAcquire \/ ReadDecode \/ ReadRelease
    \/ ReadRefill \/ ReadTopup \/ ReadShift

Spec == Init /\ [][Next]_vars

\* The Reader and the sensor accessors.  The Reader shares with the other
\* tasks only _running, which close() clears.
InitRead ==
    /\ InitDriver /\ NoDecode
    /\ ser = "open"
    /\ \/ /\ \E fs \in FrameSeqs(MaxFrames) : \E g \in Garbage(fs) :
                 stream = g \o Concat(fs)
          /\ tmoMax = 0
       \/ /\ \E fs \in FrameSeqs(1) : \E g \in {<<>>, <<7>>} : stream = g \o Concat(fs)
          /\ tmoMax = MaxTmo
    /\ enqLeft = 0

NextRead ==
    \/ ReadStart \/ ReadLoop \/ ReadAcquire \/ ReadDecode \/ ReadRelease
    \/ ReadRefill \/ ReadTopup \/ ReadShift
    \/ getSensorsAcquire \/ getSensorsCopy \/ getSensorsRelease
    \/ \E port \in ClearPorts : clearRotationAcquire(port)
    \/ clearRotationSet \/ clearRotationRelease
    \/ closePut \/ closeClear

SpecRead == InitRead /\ [][NextRead]_vars

\* _decodeInput on every pair of bytes, called directly (no Transport, the
\* Reader returns at once), and through the Reader on frames whose eight channel
\* pairs are one pair of extreme bytes.
EdgeBytes == {0, 7, 63, 64, 192, 255}

InitDecode ==
    /\ InitDriver
    /\ tmoMax = 0
    /\ enqLeft = 0
    /\ decOut = <<>>
    /\ \/ /\ ser = "none" /\ stream = <<>>
          /\ decB1 \in Byte /\ decB2 \in Byte
       \/ /\ ser = "open"
          /\ decB1 = 0 /\ decB2 = 0
          /\ \E b1 \in EdgeBytes, b2 \in EdgeBytes :
                 stream = <<7>> \o MkFrame([p \in 1 .. NUM_SENSORS |-> <<b1, b2>>])

NextDecode ==
    \/ decodeCall
    \/ ReadStart \/ ReadLoop \/ ReadAcquire \/ ReadDecode \/ ReadRelease
    \/ ReadRefill \/ ReadTopup \/ ReadShift

SpecDecode == InitDecode /\ [][NextDecode]_vars

\* sendPortCmd on every command and a range of port arguments, one call a run.
InitCmd ==
    /\ InitDriver /\ NoDecode
    /\ ser \in {"open", "none"}
    /\ stream = <<>>
    /\ tmoMax = 0
    /\ enqLeft = 1

NextCmd ==
    \/ KeepAliveCheck \/ KeepAlivePut
    \/ WriteCheck \/ WriteGet \/ WriteItem
    \/ \E cmd \in Cmds, port \in PortArgs : sendPortCmd(cmd, port)

SpecCmd == InitCmd /\ [][NextCmd]_vars

\* Power calls over every port argument and power level, with the keepalive
\* task and the Writer running beside the caller.
PowerArgs == (0 - 1) .. 9

InitPower ==
    /\ InitDriver /\ NoDecode
    /\ ser \in {"open", "none"}
    /\ stream = <<>>
    /\ tmoMax = 0
    /\ enqLeft = 3

NextPower ==
    \/ KeepAliveCheck \/ KeepAlivePut
    \/ WriteCheck \/ WriteGet \/ WriteItem
    \/ \E port \in PortArgs, power \in PowerArgs : setPowerCmd(port, power)
    \/ setPowerMask

SpecPower == InitPower /\ [][NextPower]_vars

\* ---------------------------------------------------------------------
\* Construction: __init__ from the opening of the transport to the start of
\* the three tasks.

\* _INIT_ON = b'p\0'
INIT_ON == <<112, 0>>

\* _INIT_START = b'###Do you byte, when I knock?$$$'
INIT_START ==
    <<35, 35, 35, 68, 111, 32, 121, 111, 117, 32, 98, 121, 116, 101, 44, 32,
      119, 104, 101, 110, 32, 73, 32, 107, 110, 111, 99, 107, 63, 36, 36, 36>>

\* _INIT_RETURN = b'###Just a bit off the block!$$$'
INIT_RETURN ==
    <<35, 35, 35, 74, 117, 115, 116, 32, 97, 32, 98, 105, 116, 32, 111, 102,
      102, 32, 116, 104, 101, 32, 98, 108, 111, 99, 107, 33, 36, 36, 36>>

\* the positions of __init__ before its threads are started
InitPcs == {"init", "init_challenge", "init_read", "init_match", "init_start"}

\* if self._ser != None: self._ser.write(self._INIT_ON)
initOn ==
    /\ callPc = "init"
    /\ IF ser = "none"
       THEN callPc' = "init_start" /\ wire' = wire
       ELSE callPc' = "init_challenge" /\ wire' = wire \o INIT_ON
    /\ UNCHANGED <<flagVars, outQueue, sink, kaPc, wrPc, wrItem, wrRaw, enqLog,
                   wrLog, enqLeft, rdVars, sensVars, callArg, snap, pre, clIdx,
                   nClose, nRet, lastCall, decVars, auxVars>>

\* self._ser.write(self._INIT_START)
initChallenge ==
    /\ callPc = "init_challenge"
    /\ wire' = wire \o INIT_START
    /\ callPc' = "init_read"
    /\ UNCHANGED <<flagVars, outQueue, sink, kaPc, wrPc, wrItem, wrRaw, enqLog,
                   wrLog, enqLeft, rdVars, sensVars, callArg, snap, pre, clIdx,
                   nClose, nRet, lastCall, decVars, auxVars>>

\* confirmation = self._ser.read(len(self._INIT_RETURN))
initRead ==
    /\ callPc = "init_read"
    /\ \E k \in ReadLens(Len(INIT_RETURN)) :
           /\ confirmation' = ReadBytes(k)
           /\ ReadDone(Len(INIT_RETURN), k)
    /\ callPc' = "init_match"
    /\ UNCHANGED <<flagVars, outVars, rdPc, rdStep, buff, stream, tmoMax,
                   lastFrame, rotExp, sensVars, callArg, snap, pre, clIdx,
                   nClose, nRet, lastCall, decVars, kaAfter, wrAfter, nAcc>>

\* a match loop that ends on any window ending with the string's last byte
initMatchLastByte ==
    /\ callPc = "init_match"
    /\ IF confirmation # <<>>
          /\ confirmation[Len(confirmation)] = INIT_RETURN[Len(INIT_RETURN)]
       THEN /\ callPc' = "init_start"
            /\ UNCHANGED <<confirmation, pos, nTmo>>
       ELSE /\ \E k \in ReadLens(1) :
                   /\ confirmation' = From1(confirmation) \o ReadBytes(k)
                   /\ ReadDone(1, k)
            /\ callPc' = "init_match"
    /\ UNCHANGED <<flagVars, outVars, rdPc, rdStep, buff, stream, tmoMax,
                   lastFrame, rotExp, sensVars, callArg, snap, pre, clIdx,
                   nClose, nRet, lastCall, decVars, kaAfter, wrAfter, nAcc>>

\* while confirmation != self._INIT_RETURN:
\*     confirmation = confirmation[1:] + self._ser.read(1)
initMatch ==
    /\ callPc = "init_match"
    /\ IF confirmation = INIT_RETURN
       THEN /\ callPc' = "init_start"
            /\ UNCHANGED <<confirmation, pos, nTmo>>
       ELSE /\ \E k \in ReadLens(1) :
                   /\ confirmation' = From1(confirmation) \o ReadBytes(k)
                   /\ ReadDone(1, k)
            /\ callPc' = "init_match"
    /\ UNCHANGED <<flagVars, outVars, rdPc, rdStep, buff, stream, tmoMax,
                   lastFrame, rotExp, sensVars, callArg, snap, pre, clIdx,
                   nClose, nRet, lastCall, decVars, kaAfter, wrAfter, nAcc>>

\* self._running.set(); for thread in self._threadList: thread.start()
\* (confirmation is a local of __init__ and ends with it)
initStart ==
    /\ callPc = "init_start"
    /\ running' = TRUE
    /\ kaPc' = "check" /\ wrPc' = "check" /\ rdPc' = "start"
    /\ confirmation' = <<>>
    /\ callPc' = "idle"
    /\ UNCHANGED <<ser, serClosed, outQueue, wire, sink, wrItem, wrRaw, enqLog,
                   wrLog, enqLeft, rdStep, buff, stream, pos, nTmo, tmoMax,
                   lastFrame, rotExp, sensVars, callArg, snap, pre, clIdx,
                   nClose, nRet, lastCall, decVars, kaAfter, wrAfter, nAcc>>

\* what the device sends after the challenge: nothing, the head of the
\* confirmation string only, or the string after some bytes of noise (among
\* them a false start of the string), then silence or sensor data
Answers ==
    {<<>>, SubSeq(INIT_RETURN, 1, 10)}
    \cup {g \o INIT_RETURN \o t :
            g \in {<<>>, <<7>>, <<35, 35, 35, 74, 35>>},
            t \in {<<>>, <<7>> \o FrameA}}

\* the state after the try block that opens the transport, the three threads
\* created and not started
InitHandshake ==
    /\ NoDecode
    /\ serClosed = FALSE
    /\ running = FALSE
    /\ outQueue = <<>> /\ wire = <<>> /\ sink = <<>>
    /\ kaPc = "new" /\ wrPc = "new" /\ wrItem = <<>> /\ wrRaw = 0
    /\ enqLog = <<>> /\ wrLog = <<>>
    /\ rdPc = "new" /\ rdStep = 0 /\ buff = <<>> /\ pos = 0 /\ nTmo = 0
    /\ lastFrame = <<>> /\ rotExp = Zeros
    /\ sensorValues = Zeros /\ sensorStatus = Zeros /\ rotations = Zeros
    /\ sensorLock = "free"
    /\ callPc = "init" /\ callArg = 0
    /\ snap = <<Zeros, Zeros, Zeros>> /\ pre = <<>>
    /\ clIdx = 0 /\ nClose = 0 /\ nRet = 0 /\ lastCall = <<>>
    /\ confirmation = <<>>
    /\ kaAfter = 0 /\ wrAfter = 0 /\ nAcc = 0
    /\ enqLeft = 0
    /\ \/ ser = "none" /\ stream = <<>> /\ tmoMax = 0
       \/ ser = "open" /\ stream \in Answers /\ tmoMax \in {0, MaxTmo}

NextHandshake ==
    \/ initOn \/ initChallenge \/ initRead \/ initMatch \/ initStart
    \/ KeepAliveCheck \/ WriteCheck
    \/ ReadStart \/ ReadLoop \/ ReadAcquire \/ ReadDecode \/ ReadRelease
    \/ ReadRefill \/ ReadTopup \/ ReadShift

SpecHandshake == InitHandshake /\ [][NextHandshake]_vars

(***************************************************************************)
(* Properties.                                                             *)
(***************************************************************************)
IsPrefix(s, t) == Len(s) <= Len(t) /\ SubSeq(t, 1, Len(s)) = s
Range(s) == {s[i] : i \in 1 .. Len(s)}
Terminated == kaPc = "done" /\ wrPc = "done" /\ rdPc \in {"done", "crashed"}

\* C1: the items the Writer has written are, in order, a prefix of the items
\* put on the Outgoing Queue by all producers: nothing is reordered, duplicated
\* or written before an item enqueued earlier.
C1_WriteOrder == IsPrefix(wrLog, enqLog)

\* C1's case: three producers (keepalive, sendPortCmd, close) have items on the
\* wire and a later item still waits
C1_Witness ==
    /\ ser = "open"
    /\ {CMD_NOP, CMD_KILLALL, BitOr(CMD_PORTREV, 1)} \subseteq Range(wrLog)
    /\ Len(enqLog) > Len(wrLog)

\* C2: once close() has returned the three tasks have terminated and nothing
\* more is written; the Transport is closed only with all three terminated.
C2_Shutdown ==
    /\ [](nRet > 0 => Terminated)
    /\ [](serClosed => Terminated)
    /\ [][nRet > 0 => wire' = wire /\ sink' = sink]_vars

\* C2's case: close() has returned on an open Transport that carried bytes,
\* with items left on the queue
C2_Witness == nRet > 0 /\ serClosed /\ Len(wire) > 0 /\ outQueue # <<>>

\* the acceptance rule in the words of the frame format: 19 bytes, the first
\* zero, the byte sum 255 modulo 256
ValidFrame(w) == Len(w) = 19 /\ w[1] = 0 /\ SumSeq(w) % 256 = 255

\* the value and the status the frame format gives port p in window w
ExpValue(w, p) == 4 * w[ChannelOffset(p) + 1] + (w[ChannelOffset(p) + 2] \div 64)
ExpStatus(w, p) == w[ChannelOffset(p) + 2] % 64
ExpValues(w) == [p \in Ports |-> IF w = <<>> THEN 0 ELSE ExpValue(w, p)]
ExpStatuses(w) == [p \in Ports |-> IF w = <<>> THEN 0 ELSE ExpStatus(w, p)]

\* C3: a window the Reader tests while the link runs goes on to change the
\* sensor state exactly if it is a valid frame; any other window is rejected:
\* the Reader goes on to the shift, with the sensor state unchanged, and
\* neither crashes nor stops; the shift drops the first byte and appends the
\* byte read.
C3_WindowRule ==
    /\ [][(rdPc = "loop" /\ running) =>
            /\ (rdPc' = "acquire") <=> ValidFrame(buff)
            /\ ~ValidFrame(buff) => rdPc' = "shift"
            /\ UNCHANGED <<sensorValues, sensorStatus, rotations, buff>>]_rdPc
    /\ [][rdPc = "shift" =>
            /\ Len(buff') = Len(buff)
            /\ SubSeq(buff', 1, Len(buff) - 1) = From1(buff)]_rdPc

\* the stream ends with a valid frame; no window that starts before that frame
\* is a valid frame; the Reader has read the whole stream, every read returning
\* all it asked for or all there was, and is past the test of its window
EndsWithFrame == Len(stream) >= 19 /\ ValidFrame(SubSeq(stream, Len(stream) - 18, Len(stream)))
TheFrame == SubSeq(stream, Len(stream) - 18, Len(stream))
NoFalseWindow == \A i \in 1 .. (Len(stream) - 19) : ~ValidFrame(SubSeq(stream, i, i + 18))
FrameSeen == rdPc \in {"refill", "topup", "shift"} /\ pos = Len(stream) /\ nTmo = 0
ShowsTheFrame ==
    /\ sensorValues = ExpValues(TheFrame)
    /\ sensorStatus = ExpStatuses(TheFrame)

\* C4 as claimed: whatever bytes precede one valid frame, once the Reader has
\* read the frame's last byte and tested its window, the sensor state shows
\* the frame's channel values.
C4_AnyGarbage == (EndsWithFrame /\ FrameSeen) => ShowsTheFrame

\* C4 as amended: the same, for preceding bytes none of whose 19-byte windows
\* (the frame's first bytes included) is itself a valid frame.
C4_Resync == (EndsWithFrame /\ NoFalseWindow /\ FrameSeen) => ShowsTheFrame

\* C4's case: three bytes of garbage, one of them a zero, then the frame; the
\* Reader has found and decoded the frame
C4_Witness ==
    /\ EndsWithFrame /\ NoFalseWindow /\ FrameSeen
    /\ Len(stream) = 22
    /\ lastFrame = TheFrame
    /\ rdPc = "topup"

\* C5: _decodeInput(b1, b2) returns the 10-bit value 4 * b1 + the two top bits
\* of b2, the status b2 mod 64, and a delta of magnitude status mod 4, negative
\* when bit 2 of the status is zero and positive otherwise; every stored value
\* is in 0..1023 and every stored status in 0..63.
C5_Decode ==
    /\ decOut # <<>> =>
          /\ decOut[1] = 4 * decB1 + (decB2 \div 64)
          /\ decOut[2] = decB2 % 64
          /\ decOut[3] = IF ((decB2 % 64) \div 4) % 2 = 0
                         THEN 0 - ((decB2 % 64) % 4)
                         ELSE (decB2 % 64) % 4
    /\ \A p \in Ports : sensorValues[p] \in 0 .. 1023 /\ sensorStatus[p] \in 0 .. 63

\* C5's case: the largest bytes decoded to the largest value and status, with a
\* positive delta
C5_Witness == decB1 = 255 /\ decB2 = 255 /\ decOut = <<1023, 63, 3>>

\* C6 as claimed: _decodeInput(0xFF, 0xC0) = (1023, 0, 0) and
\* _decodeInput(0x00, 0x07) = (0, 7, -3).
C6_SpecExamples ==
    decOut # <<>> =>
       /\ (decB1 = 255 /\ decB2 = 192) => decOut = <<1023, 0, 0>>
       /\ (decB1 = 0 /\ decB2 = 7) => decOut = <<0, 7, 0 - 3>>

\* C6 as amended: _decodeInput(0xFF, 0xC0) = (1023, 0, 0) and
\* _decodeInput(0x00, 0x07) = (0, 7, +3): bit 2 of status 7 is set.
C6_Examples ==
    decOut # <<>> =>
       /\ (decB1 = 255 /\ decB2 = 192) => decOut = <<1023, 0, 0>>
       /\ (decB1 = 0 /\ decB2 = 7) => decOut = <<0, 7, 3>>

\* C6's case: the second example has been decoded
C6_Witness == decB1 = 0 /\ decB2 = 7 /\ decOut # <<>>

\* C7: whenever the Reader is not in the middle of a frame's update, the
\* rotation counter of each port E..H is the sum of the deltas of the frames
\* accepted since that port's last clearRotation; the counters of ports A..D
\* are 0 in every state.
C7_Rotation ==
    /\ sensorLock # "reader" => \A p \in 4 .. 7 : rotations[p] = rotExp[p]
    /\ \A p \in 0 .. 3 : rotations[p] = 0

\* C7's case: two frames with delta +1 on port E were accepted, and port H was
\* cleared between them (it shows the second frame's +3 alone)
C7_Witness ==
    /\ sensorLock = "free" /\ rdPc = "refill"
    /\ lastFrame = FrameB
    /\ rotations[4] = 2 /\ rotations[7] = 3

\* C8: from taking the lock to releasing it, clearRotation(p) has set the
\* counter of port p mod 8 to 0 and left the other seven counters and all
\* values and statuses as they were.
C8_ClearRotation ==
    callPc = "cr_release" =>
       /\ rotations = [pre[3] EXCEPT ![callArg % 8] = 0]
       /\ sensorValues = pre[1]
       /\ sensorStatus = pre[2]

\* C8's case: clearRotation(13) has zeroed the non-zero counter of port F while
\* other counters are non-zero and the Reader waits for the lock
C8_Witness ==
    /\ callPc = "cr_release" /\ callArg = 13
    /\ pre[3][5] # 0 /\ rotations[5] = 0 /\ rotations[4] # 0
    /\ rdPc = "acquire"

\* C9: the tuple getSensors() returns holds the values and statuses of one
\* accepted frame, the last one (or zeroes before the first), together with
\* the rotation counters that include that frame's deltas.
C9_Snapshot ==
    callPc = "gs_release" =>
       /\ snap[1] = ExpValues(lastFrame)
       /\ snap[2] = ExpStatuses(lastFrame)
       /\ snap[3] = rotExp

\* C9's case: a snapshot of frame B taken while the Reader waits for the lock
\* with the next frame
C9_Witness ==
    /\ callPc = "gs_release" /\ lastFrame = FrameB
    /\ snap[1] = ExpValues(FrameB)
    /\ rdPc = "acquire"

\* C10: sendPortCmd(cmd, p) appends to the Outgoing Queue exactly one item,
\* cmd | (p mod 8), and changes nothing else of the driver.
C10_SendPortCmd ==
    [][\A cmd \in Cmds, port \in PortArgs :
          sendPortCmd(cmd, port) =>
             /\ outQueue' = Append(outQueue, BitOr(cmd, port % 8))
             /\ UNCHANGED <<flagVars, wire, sink, kaPc, wrPc, wrItem, rdPc, buff,
                            sensVars, callPc>>]_vars

\* C10's case: sendPortCmd(CMD_PORTREV, 15) was called and its item, for port
\* H, was written
C10_Witness ==
    /\ lastCall = <<"sendPortCmd", CMD_PORTREV, 15>>
    /\ wrLog = <<39>>


\* ---------------------------------------------------------------------
\* C11: for every port p and power level, setPower(p, power) appends
\* exactly two items to the outgoing queue, in this order: first
\* 0xB0 | (power & 7), then the one-hot mask 1 << (p & 7).  The call's first
\* step appends the power item, its second and last step appends the mask,
\* and between the two steps the only item that can enter the queue is a
\* no-op of the keepalive task.
C11_SetPower ==
    [][ /\ (callPc = "idle" /\ callPc' = "setPower") =>
              /\ lastCall'[1] = "setPower"
              /\ enqLog' = Append(enqLog,
                                  PARAM_POWER + (lastCall'[3] % 8))
              /\ outQueue' = Append(outQueue,
                                    PARAM_POWER + (lastCall'[3] % 8))
        /\ (callPc = "setPower" /\ callPc' # "setPower") =>
              /\ callPc' = "idle"
              /\ enqLog' = Append(enqLog, Pow2(lastCall[2] % 8))
              /\ outQueue' = Append(outQueue, Pow2(lastCall[2] % 8))
        /\ (callPc = "setPower" /\ callPc' = "setPower"
              /\ enqLog' # enqLog) =>
              /\ kaPc = "sleep" /\ kaPc' = "check"
              /\ enqLog' = Append(enqLog, CMD_NOP)
      ]_vars

\* setPower(15, 9) has returned: 0xB1 and then 0x80 were appended.
C11_Witness ==
    /\ lastCall = <<"setPower", 15, 9>>
    /\ callPc = "idle"
    /\ enqLog = <<177, 128>>


\* ---------------------------------------------------------------------
\* C12: in the stream written to the transport, the power command of a
\* setPower call is followed immediately by the one-hot mask of the call's
\* port: no other item, in particular no keepalive no-op, is written
\* between the two.  (One caller thread; every setPower call of this
\* specification names a port of LinkPowerPorts.  The stream is taken item
\* by item, as handed to the transport's write.)
PowerItems == {PortCmdItem(PARAM_POWER, power) : power \in LinkPowers}

PowerMasks == {Pow2(port % 8) : port \in LinkPowerPorts}

C12_PowerPair ==
    \A i \in 1 .. Len(wrLog) - 1 :
        wrLog[i] \in PowerItems => wrLog[i + 1] \in PowerMasks


\* ---------------------------------------------------------------------
\* C13: for every item the Writer pops, whatever its value in 0..255, what
\* is written to the transport is exactly one byte, equal to the enqueued
\* value: the bytes on the wire are, one for one, the items written.
C13_OneByte ==
    ser = "open" => wire = wrLog


\* ---------------------------------------------------------------------
\* C14: shutdown can deadlock.  There is a reachable state in which close()
\* has cleared the running flag and waits for the tasks, the Writer is
\* blocked in its pop on the empty queue and the keepalive task has seen
\* the cleared flag and ended (C14_Witness); from that state on nothing is
\* ever enqueued, the Writer stays in its pop and close() does not return.
C14_Witness ==
    /\ ~running
    /\ callPc = "close_join"
    /\ wrPc = "get"
    /\ outQueue = <<>>
    /\ kaPc = "done"

C14_Deadlock ==
    [][C14_Witness =>
          /\ C14_Witness'
          /\ enqLog' = enqLog
          /\ nRet' = nRet
          /\ serClosed' = serClosed]_vars


\* ---------------------------------------------------------------------
\* C15: on every execution in which close() returns, the disconnect
\* command close() enqueued has been written to the transport before the
\* transport is closed, whatever the backlog of the queue was at the call.
C15_KillallWritten ==
    serClosed => CMD_KILLALL \in Range(wrLog)


\* ---------------------------------------------------------------------
\* C16: a read that times out and returns fewer bytes than requested (in
\* the initial 19-byte fill or in the one-byte shift) does not stop the
\* Reader from accepting frames: it goes on accumulating bytes until its
\* window is 19 bytes long again, so a valid frame arriving afterwards is
\* still accepted.  Stated for a stream that ends with a valid frame and has
\* no valid window before it: once the Reader has read the frame's last byte
\* and tested its window, with or without timeouts on the way, the sensor
\* state shows the frame.
C16_ShortRead ==
    (/\ EndsWithFrame /\ NoFalseWindow
     /\ rdPc \in {"refill", "topup", "shift"}
     /\ pos = Len(stream))
        => ShowsTheFrame


\* ---------------------------------------------------------------------
\* C17: the handshake completes whenever the device sends the full
\* confirmation string, also when the first confirmation read or a later
\* one-byte read timed out and returned fewer bytes than requested.  Stated
\* on the bytes read: when __init__ has read the stream up to (or past) the
\* end of an occurrence of the confirmation string and is at the test of its
\* loop, its window is the confirmation string, so the loop ends there.
ConfirmationRead ==
    \E i \in Len(INIT_RETURN) .. pos :
        SubSeq(stream, i - Len(INIT_RETURN) + 1, i) = INIT_RETURN

C17_Handshake ==
    (callPc = "init_match" /\ ConfirmationRead) => confirmation = INIT_RETURN

\* ---------------------------------------------------------------------
\* C18: with the transport available, none of the Writer, keepalive and
\* Reader tasks takes a step before the handshake has matched the
\* confirmation string: until __init__ starts the threads they are where
\* they were created, the flag is clear, the bytes written to the transport
\* are a prefix of the power-on sequence followed by the challenge string,
\* nothing is queued or written from the queue, and the sensor state is
\* all zero; __init__ reaches the start of the threads only with its
\* window equal to the confirmation string, both writes done.
C18_NoEarlyStep ==
    (ser = "open" /\ callPc \in InitPcs) =>
        /\ kaPc = "new" /\ wrPc = "new" /\ rdPc = "new"
        /\ ~running
        /\ IsPrefix(wire, INIT_ON \o INIT_START)
        /\ outQueue = <<>> /\ enqLog = <<>> /\ wrLog = <<>>
        /\ sensorValues = Zeros /\ sensorStatus = Zeros /\ rotations = Zeros
        /\ callPc = "init_start" =>
              /\ confirmation = INIT_RETURN
              /\ ConfirmationRead
              /\ wire = INIT_ON \o INIT_START

\* The handshake matched after a false start of the string, the threads were
\* started and the Reader has since decoded the frame that followed.
C18_Witness ==
    /\ ser = "open"
    /\ callPc = "idle"
    /\ SubSeq(stream, 1, 5) = <<35, 35, 35, 74, 35>>
    /\ wire = INIT_ON \o INIT_START
    /\ kaPc = "sleep" /\ wrPc = "get"
    /\ nAcc = 1 /\ rdPc = "topup"


\* ---------------------------------------------------------------------
\* C19: the running flag, set at the end of construction, is never set
\* again: no step sets it, so once close() has cleared it it stays clear,
\* also through a second close().  After it is cleared the keepalive task
\* enqueues at most one more no-op, and the Writer writes at most one more
\* item, the item it holds or the one item it still pops.
WriterPending == IF ~running /\ wrPc = "write" THEN 1 ELSE 0

C19_FlagOnce ==
    /\ [][running' => running]_vars
    /\ [](kaAfter <= 1)
    /\ [](wrAfter + WriterPending <= 1)

\* close() was called twice and returned twice; after the flag was cleared
\* the keepalive task put one more no-op and the Writer wrote one more item,
\* leaving items on the queue.
C19_Witness ==
    /\ nClose = 2 /\ nRet = 2
    /\ ~running
    /\ kaAfter = 1 /\ wrAfter = 1
    /\ outQueue # <<>>


\* ---------------------------------------------------------------------
\* C20: for a stream of N back-to-back valid frames read without timeouts,
\* the window starting on the first frame, the Reader accepts exactly N
\* windows, one per frame in stream order: the k-th accepted window is the
\* k-th frame, accepted on reading its last byte; when the stream has been
\* read and tested to its end all N frames have been accepted; and each
\* rotational port's counter is the sum of the deltas of the frames
\* accepted since the port's last clear.
NumFrames == Len(stream) \div FRAME_LEN

FrameAt(k) == SubSeq(stream, FRAME_LEN * (k - 1) + 1, FRAME_LEN * k)

BackToBack ==
    /\ Len(stream) % FRAME_LEN = 0
    /\ \A k \in 1 .. NumFrames : ValidFrame(FrameAt(k))

\* the deltas of port p in frames j+1 .. n
DeltaSum(j, n, p) ==
    SumSeq([k \in 1 .. (n - j) |-> FrameDeltas(FrameAt(j + k))[p]])

C20_BackToBack ==
    (BackToBack /\ nTmo = 0) =>
        /\ nAcc <= NumFrames
        /\ nAcc > 0 =>
              /\ lastFrame = FrameAt(nAcc)
              /\ pos >= FRAME_LEN * nAcc
              /\ rdPc \in {"decode", "release", "refill"} =>
                    pos = FRAME_LEN * nAcc
        /\ (pos = Len(stream) /\ rdPc \in {"refill", "topup", "shift"}) =>
              nAcc = NumFrames
        /\ sensorLock # "reader" =>
              \A p \in Ports :
                  rotations[p] \in
                      IF Rotational(p)
                      THEN {DeltaSum(j, nAcc, p) : j \in 0 .. nAcc}
                      ELSE {0}

\* Two different frames back to back, both accepted, and a rotational port
\* whose counter is the sum of two non-zero deltas.
C20_Witness ==
    /\ BackToBack /\ nTmo = 0
    /\ NumFrames = 2 /\ nAcc = 2
    /\ FrameAt(1) # FrameAt(2)
    /\ rdPc = "topup"
    /\ \E p \in Ports :
           /\ FrameDeltas(FrameAt(1))[p] # 0
           /\ FrameDeltas(FrameAt(2))[p] # 0
           /\ rotations[p] = DeltaSum(0, 2, p)

====
